---------------------------- MODULE Spec2Model ----------------------------
(***************************************************************************)
(* The Mystery Adventure Bot (src/main.py): the game state engine.         *)
(*                                                                         *)
(* The state is the GameEngine object: its PlayerState and the mutable     *)
(* fields of its StoryData (location item lists, puzzle solved flags and   *)
(* hint cursors, NPC met flags).  Every public method of GameEngine is one *)
(* action; `result` records the method called last, its arguments and what *)
(* it returned or raised.                                                   *)
(*                                                                         *)
(* Text is a sequence of characters (one-character strings); a character   *)
(* outside ASCII is written "U+XXXX".  Python's str.lower and the `in`     *)
(* substring test are the operators Lower and Contains.  The player's name *)
(* only occurs inside messages and is left out; a returned message is      *)
(* recorded by the return statement that produced it (the field `kind`).   *)
(***************************************************************************)
EXTENDS Integers, Sequences, FiniteSets, TLC

VARIABLES
    state,               \* GameEngine.state (GameState)
    game_over,           \* GameEngine.game_over
    ending_type,         \* GameEngine.ending_type
    current_location,    \* PlayerState.current_location
    inventory,           \* PlayerState.inventory, the item ids in pick-up order
    visited_locations,   \* PlayerState.visited_locations
    completed_puzzles,   \* PlayerState.completed_puzzles
    unlocked_locations,  \* PlayerState.unlocked_locations
    special_flags,       \* PlayerState.special_flags, a dict of booleans
    items,               \* Location.items of every location
    location_locks,      \* Location.locked and Location.unlock_requirements of every location
    solved,              \* Puzzle.solved of every puzzle
    hint_index,          \* Puzzle._hint_index: <<>> while the attribute is absent, else <<k>>
    met,                 \* NPC.met of every NPC
    result,              \* the last call: [op, arg, ok, kind, value]
    pc                   \* where main() stands in its loop

player ==
    <<current_location, inventory, visited_locations, completed_puzzles,
      unlocked_locations, special_flags>>

story ==
    <<items, location_locks, solved, hint_index, met>>

engine ==
    <<state, game_over, ending_type>>

vars ==
    <<engine, player, story, result, pc>>

---------------------------------------------------------------------------
(* Text *)

None == "None"

UpperToLower ==
    [c \in {"A", "B", "C", "D", "E", "F", "G", "H", "I", "J", "K", "L", "M",
            "N", "O", "P", "Q", "R", "S", "T", "U", "V", "W", "X", "Y", "Z",
            "U+0178"} |->
        CASE c = "A" -> "a" [] c = "B" -> "b" [] c = "C" -> "c" [] c = "D" -> "d"
          [] c = "E" -> "e" [] c = "F" -> "f" [] c = "G" -> "g" [] c = "H" -> "h"
          [] c = "I" -> "i" [] c = "J" -> "j" [] c = "K" -> "k" [] c = "L" -> "l"
          [] c = "M" -> "m" [] c = "N" -> "n" [] c = "O" -> "o" [] c = "P" -> "p"
          [] c = "Q" -> "q" [] c = "R" -> "r" [] c = "S" -> "s" [] c = "T" -> "t"
          [] c = "U" -> "u" [] c = "V" -> "v" [] c = "W" -> "w" [] c = "X" -> "x"
          [] c = "Y" -> "y" [] c = "Z" -> "z" [] c = "U+0178" -> "U+00FF"]

\* str.lower()
Lower(s) ==
    [i \in 1..Len(s) |->
        IF s[i] \in DOMAIN UpperToLower THEN UpperToLower[s[i]] ELSE s[i]]

\* `sub in s` on strings
Contains(sub, s) ==
    \E k \in 0..(Len(s) - Len(sub)) :
        \A i \in 1..Len(sub) : s[k + i] = sub[i]

---------------------------------------------------------------------------
(* StoryData *)

\* StoryData._create_items
Items ==
    [ old_key |->
        [id |-> <<"o", "l", "d", "_", "k", "e", "y">>,
         name |-> <<"U+011F", "U+0178", "U+201D", "U+2018", " ", "K", "u", "n", "c", "i", " ", "T", "u", "a">>],
      mysterious_note |->
        [id |-> <<"m", "y", "s", "t", "e", "r", "i", "o", "u", "s", "_", "n", "o", "t", "e">>,
         name |-> <<"U+011F", "U+0178", "U+201C", " ", "C", "a", "t", "a", "t", "a", "n", " ", "M", "i", "s", "t", "e", "r", "i", "u", "s">>],
      crystal_gem |->
        [id |-> <<"c", "r", "y", "s", "t", "a", "l", "_", "g", "e", "m">>,
         name |-> <<"U+011F", "U+0178", "U+2019", " ", "K", "r", "i", "s", "t", "a", "l", " ", "B", "e", "r", "c", "a", "h", "a", "y", "a">>],
      ancient_coin |->
        [id |-> <<"a", "n", "c", "i", "e", "n", "t", "_", "c", "o", "i", "n">>,
         name |-> <<"U+011F", "U+0178", "U+00AA", "U+2122", " ", "K", "o", "i", "n", " ", "K", "u", "n", "o">>],
      torch |->
        [id |-> <<"t", "o", "r", "c", "h">>,
         name |-> <<"U+011F", "U+0178", "U+201D", "U+00A6", " ", "O", "b", "o", "r">>],
      diary |->
        [id |-> <<"d", "i", "a", "r", "y">>,
         name |-> <<"U+011F", "U+0178", "U+201C", "U+2013", " ", "B", "u", "k", "u", " ", "H", "a", "r", "i", "a", "n">>] ]

\* StoryData._create_locations: the fields the engine reads, as constructed.
\* unlock_requirements is <<>> where the source leaves None.
Locations ==
    [ starting_room |->
        [locked |-> FALSE, items |-> <<"mysterious_note", "old_key">>, npcs |-> <<>>,
         exits |-> [timur |-> "hallway"],
         puzzle |-> None, unlock_requirements |-> <<>>],
      hallway |->
        [locked |-> FALSE, items |-> <<>>, npcs |-> <<>>,
         exits |-> [barat |-> "starting_room", utara |-> "library", selatan |-> "cellar"],
         puzzle |-> None, unlock_requirements |-> <<>>],
      library |->
        [locked |-> FALSE, items |-> <<"diary">>, npcs |-> <<"librarian">>,
         exits |-> [selatan |-> "hallway", timur |-> "study_room"],
         puzzle |-> None, unlock_requirements |-> <<>>],
      study_room |->
        [locked |-> FALSE, items |-> <<>>, npcs |-> <<"scholar">>,
         exits |-> [barat |-> "library", utara |-> "tower"],
         puzzle |-> "study_puzzle", unlock_requirements |-> <<>>],
      tower |->
        [locked |-> TRUE, items |-> <<"crystal_gem">>, npcs |-> <<>>,
         exits |-> [selatan |-> "study_room", utara |-> "secret_room"],
         puzzle |-> None, unlock_requirements |-> <<"study_puzzle">>],
      cellar |->
        [locked |-> FALSE, items |-> <<"torch">>, npcs |-> <<"gatekeeper">>,
         exits |-> [utara |-> "hallway", barat |-> "vault"],
         puzzle |-> None, unlock_requirements |-> <<>>],
      secret_room |->
        [locked |-> TRUE, items |-> <<>>, npcs |-> <<"spirit">>,
         exits |-> [selatan |-> "tower"],
         puzzle |-> "vault_puzzle", unlock_requirements |-> <<"tower">>],
      vault |->
        [locked |-> TRUE, items |-> <<>>, npcs |-> <<"keeper">>,
         exits |-> [timur |-> "cellar"],
         puzzle |-> None, unlock_requirements |-> <<"vault_puzzle">>] ]

\* StoryData._create_npcs
Npcs ==
    [ librarian |->
        [id |-> <<"l", "i", "b", "r", "a", "r", "i", "a", "n">>,
         name |-> <<"U+011F", "U+0178", "U+2018", "U+00B4", " ", "P", "e", "t", "u", "g", "a", "s", " ", "P", "e", "r", "p", "u", "s", "t", "a", "k", "a", "a", "n">>,
         location_id |-> "library", dialogues |-> 1],
      scholar |->
        [id |-> <<"s", "c", "h", "o", "l", "a", "r">>,
         name |-> <<"U+011F", "U+0178", "U+00A7", "U+00A0", " ", "U", "l", "a", "m", "a", " ", "T", "u", "a">>,
         location_id |-> "study_room", dialogues |-> 1] ]

\* StoryData._create_puzzles: a hint string is named by its puzzle and its
\* place in the list
Puzzles ==
    [ study_puzzle |->
        [location_id |-> "study_room", correct_answer |-> <<"b", "a", "f">>,
         hints |-> <<"study_hint_1", "study_hint_2", "study_hint_3", "study_hint_4">>,
         reward |-> "tower"],
      vault_puzzle |->
        [location_id |-> "secret_room", correct_answer |-> <<"1", "2", "8">>,
         hints |-> <<"vault_hint_1", "vault_hint_2", "vault_hint_3", "vault_hint_4">>,
         reward |-> "vault"] ]

\* item.name.lower() and item.id.lower(), npc.name.lower() and npc.id.lower()
LowerItems ==
    [i \in DOMAIN Items |-> [id |-> Lower(Items[i].id), name |-> Lower(Items[i].name)]]

LowerNpcs ==
    [n \in DOMAIN Npcs |-> [id |-> Lower(Npcs[n].id), name |-> Lower(Npcs[n].name)]]

LocationIds == DOMAIN Locations
ItemIds == DOMAIN Items
NpcIds == DOMAIN Npcs
PuzzleIds == DOMAIN Puzzles

---------------------------------------------------------------------------
(* Inputs of the calls *)

\* The four directions the content uses and a label no location has
Directions ==
    {"utara", "selatan", "timur", "barat", "atas"}

\* Queries given to pick_up_item: empty, by id in upper case, a word of the
\* name of the second item of a list, a letter several items share, no match.
ItemQueries ==
    { <<>>,
      <<"K", "E", "Y">>,
      <<"t", "u", "a">>,
      <<"r">>,
      <<"x", "y", "z">> }

\* Queries given to interact_with_npc: by name in upper case, by id, no match.
NpcQueries ==
    { <<"U", "L", "A", "M", "A">>,
      <<"l", "i", "b">>,
      <<"x", "y", "z">> }

\* Answers given to solve_puzzle: the first puzzle's in mixed case and the
\* second puzzle's; each is a wrong answer to the other puzzle.
Answers ==
    { <<"B", "a", "F">>,
      <<"1", "2", "8">> }

PuzzleArgs == PuzzleIds \cup {"no_such_puzzle"}

LocationArgs == LocationIds \cup {"hidden_chamber"}

---------------------------------------------------------------------------
(* GameEngine *)

\* What a call leaves in `result`: the method, the boolean it returned (TRUE
\* for a method that returns no boolean, FALSE when it raised), the return
\* statement taken (or the exception raised) and what the message names.
\* arg keeps the arguments of solve_puzzle and get_puzzle_hint; the other
\* methods' arguments are not kept (arg is <<>>).
ConstructedLocks ==
    [l \in LocationIds |->
        [locked |-> Locations[l].locked,
         unlock_requirements |-> Locations[l].unlock_requirements]]

Returned(op, arg, ok, kind, value) ==
    [op |-> op, arg |-> arg, ok |-> ok, kind |-> kind, value |-> value]

\* GameEngine.__init__ (with StoryData() and PlayerState())
Init ==
    /\ state = "menu"
    /\ game_over = FALSE
    /\ ending_type = None
    /\ current_location = "starting_room"
    /\ inventory = <<>>
    /\ visited_locations = {}
    /\ completed_puzzles = {}
    /\ unlocked_locations = {"starting_room", "hallway"}
    /\ special_flags = [f \in {} |-> FALSE]
    /\ items = [l \in LocationIds |-> Locations[l].items]
    /\ location_locks = ConstructedLocks
    /\ solved = [p \in PuzzleIds |-> FALSE]
    /\ hint_index = [p \in PuzzleIds |-> <<>>]
    /\ met = [n \in NpcIds |-> FALSE]
    /\ result = Returned("__init__", <<>>, TRUE, "Constructed", <<>>)
    /\ pc = "loop"

\* GameEngine.start_game
start_game ==
    /\ state' = "playing"
    /\ result' = Returned("start_game", <<>>, TRUE, "Started", <<>>)
    /\ UNCHANGED <<game_over, ending_type, player, story>>

\* check_location_access with the grant assigning the unlocked set instead of
\* adding to it
check_location_access_reset(location_id) ==
    IF location_id \notin LocationIds
    THEN [can_access |-> FALSE, kind |-> "LocationNotFound",
          required |-> <<>>, unlocked |-> unlocked_locations]
    ELSE LET location == location_locks[location_id] IN
         IF location.locked /\ location_id \notin unlocked_locations
         THEN IF location.unlock_requirements # <<>>
              THEN LET required == location.unlock_requirements[1] IN
                   IF \/ required \in completed_puzzles
                      \/ required \in unlocked_locations
                   THEN [can_access |-> TRUE, kind |-> "Unlocked",
                         required |-> <<>>, unlocked |-> {location_id}]
                   ELSE [can_access |-> FALSE, kind |-> "RequirementNotMet",
                         required |-> <<required>>, unlocked |-> unlocked_locations]
              ELSE [can_access |-> FALSE, kind |-> "LocationPermanentlyLocked",
                    required |-> <<>>, unlocked |-> unlocked_locations]
         ELSE [can_access |-> TRUE, kind |-> "Granted",
               required |-> <<>>, unlocked |-> unlocked_locations]

\* check_location_access looking the requirement up among the completed
\* puzzles only
check_location_access_puzzles_only(location_id) ==
    IF location_id \notin LocationIds
    THEN [can_access |-> FALSE, kind |-> "LocationNotFound",
          required |-> <<>>, unlocked |-> unlocked_locations]
    ELSE LET location == location_locks[location_id] IN
         IF location.locked /\ location_id \notin unlocked_locations
         THEN IF location.unlock_requirements # <<>>
              THEN LET required == location.unlock_requirements[1] IN
                   IF required \in completed_puzzles
                   THEN [can_access |-> TRUE, kind |-> "Unlocked",
                         required |-> <<>>,
                         unlocked |-> unlocked_locations \cup {location_id}]
                   ELSE [can_access |-> FALSE, kind |-> "RequirementNotMet",
                         required |-> <<required>>, unlocked |-> unlocked_locations]
              ELSE [can_access |-> FALSE, kind |-> "LocationPermanentlyLocked",
                    required |-> <<>>, unlocked |-> unlocked_locations]
         ELSE [can_access |-> TRUE, kind |-> "Granted",
               required |-> <<>>, unlocked |-> unlocked_locations]

\* check_location_access asking for the location in the unlocked set whether
\* or not the location is locked
check_location_access_unlocked_only(location_id) ==
    IF location_id \notin LocationIds
    THEN [can_access |-> FALSE, kind |-> "LocationNotFound",
          required |-> <<>>, unlocked |-> unlocked_locations]
    ELSE LET location == location_locks[location_id] IN
         IF location_id \notin unlocked_locations
         THEN IF location.unlock_requirements # <<>>
              THEN LET required == location.unlock_requirements[1] IN
                   IF \/ required \in completed_puzzles
                      \/ required \in unlocked_locations
                   THEN [can_access |-> TRUE, kind |-> "Unlocked",
                         required |-> <<>>,
                         unlocked |-> unlocked_locations \cup {location_id}]
                   ELSE [can_access |-> FALSE, kind |-> "RequirementNotMet",
                         required |-> <<required>>, unlocked |-> unlocked_locations]
              ELSE [can_access |-> FALSE, kind |-> "LocationPermanentlyLocked",
                    required |-> <<>>, unlocked |-> unlocked_locations]
         ELSE [can_access |-> TRUE, kind |-> "Granted",
               required |-> <<>>, unlocked |-> unlocked_locations]

\* The outcome of check_location_access(location_id) in the current state:
\* the returned boolean, the return statement taken, the requirement the
\* message names, and the unlocked set the call leaves.
check_location_access(location_id) ==
    IF location_id \notin LocationIds
    THEN [can_access |-> FALSE, kind |-> "LocationNotFound",
          required |-> <<>>, unlocked |-> unlocked_locations]
    ELSE LET location == location_locks[location_id] IN
         IF location.locked
         THEN IF location_id \notin unlocked_locations
              THEN IF location.unlock_requirements # <<>>
                   THEN LET required == location.unlock_requirements[1] IN
                        IF \/ required \in completed_puzzles
                           \/ required \in unlocked_locations
                        THEN [can_access |-> TRUE, kind |-> "Unlocked",
                              required |-> <<>>,
                              unlocked |-> unlocked_locations \cup {location_id}]
                        ELSE [can_access |-> FALSE, kind |-> "RequirementNotMet",
                              required |-> <<required>>,
                              unlocked |-> unlocked_locations]
                   ELSE [can_access |-> FALSE, kind |-> "LocationPermanentlyLocked",
                         required |-> <<>>, unlocked |-> unlocked_locations]
              ELSE [can_access |-> TRUE, kind |-> "Granted",
                    required |-> <<>>, unlocked |-> unlocked_locations]
         ELSE [can_access |-> TRUE, kind |-> "Granted",
               required |-> <<>>, unlocked |-> unlocked_locations]

\* A call of GameEngine.check_location_access
CheckAccess(location_id) ==
    LET r == check_location_access(location_id) IN
    /\ unlocked_locations' = r.unlocked
    /\ result' = Returned("check_location_access", <<>>,
                          r.can_access, r.kind, r.required)
    /\ UNCHANGED <<engine, current_location, inventory, visited_locations,
                   completed_puzzles, special_flags, story>>

\* move_to_location taking a missing exit as a step that stays in place
move_to_location_stay(direction) ==
    LET exits == Locations[current_location].exits
        next_location_id == IF direction \in DOMAIN exits THEN exits[direction]
                            ELSE current_location
        r == check_location_access(next_location_id)
    IN  IF ~r.can_access
        THEN /\ unlocked_locations' = r.unlocked
             /\ result' = Returned("move_to_location", <<>>, FALSE,
                                   "LocationLocked", <<r.kind>> \o r.required)
             /\ UNCHANGED <<engine, current_location, inventory, visited_locations,
                            completed_puzzles, special_flags, story>>
        ELSE /\ unlocked_locations' = r.unlocked
             /\ current_location' = next_location_id
             /\ visited_locations' = visited_locations \cup {next_location_id}
             /\ result' = Returned("move_to_location", <<>>, TRUE, "Moved", <<r.kind>>)
             /\ UNCHANGED <<engine, inventory, completed_puzzles, special_flags, story>>

\* move_to_location recording the destination as visited before the access
\* check
move_to_location_early(direction) ==
    LET exits == Locations[current_location].exits IN
    IF direction \notin DOMAIN exits
    THEN /\ result' = Returned("move_to_location", <<>>, FALSE,
                               "InvalidDirection", <<>>)
         /\ UNCHANGED <<engine, player, story>>
    ELSE LET next_location_id == exits[direction]
             r == check_location_access(next_location_id)
         IN  /\ unlocked_locations' = r.unlocked
             /\ visited_locations' = visited_locations \cup {next_location_id}
             /\ IF ~r.can_access
                THEN /\ result' = Returned("move_to_location", <<>>, FALSE,
                                           "LocationLocked", <<r.kind>> \o r.required)
                     /\ UNCHANGED current_location
                ELSE /\ current_location' = next_location_id
                     /\ result' = Returned("move_to_location", <<>>, TRUE,
                                           "Moved", <<r.kind>>)
             /\ UNCHANGED <<engine, inventory, completed_puzzles, special_flags, story>>

\* move_to_location entering the destination without recording the visit
move_to_location_unvisited(direction) ==
    LET exits == Locations[current_location].exits IN
    IF direction \notin DOMAIN exits
    THEN /\ result' = Returned("move_to_location", <<>>, FALSE,
                               "InvalidDirection", <<>>)
         /\ UNCHANGED <<engine, player, story>>
    ELSE LET next_location_id == exits[direction]
             r == check_location_access(next_location_id)
         IN  IF ~r.can_access
             THEN /\ unlocked_locations' = r.unlocked
                  /\ result' = Returned("move_to_location", <<>>, FALSE,
                                        "LocationLocked", <<r.kind>> \o r.required)
                  /\ UNCHANGED <<engine, current_location, inventory,
                                 visited_locations, completed_puzzles,
                                 special_flags, story>>
             ELSE /\ unlocked_locations' = r.unlocked
                  /\ current_location' = next_location_id
                  /\ result' = Returned("move_to_location", <<>>, TRUE,
                                        "Moved", <<r.kind>>)
                  /\ UNCHANGED <<engine, inventory, visited_locations,
                                 completed_puzzles, special_flags, story>>

\* move_to_location without the access check
move_to_location_unchecked(direction) ==
    LET exits == Locations[current_location].exits IN
    IF direction \notin DOMAIN exits
    THEN /\ result' = Returned("move_to_location", <<>>, FALSE,
                               "InvalidDirection", <<>>)
         /\ UNCHANGED <<engine, player, story>>
    ELSE /\ current_location' = exits[direction]
         /\ visited_locations' = visited_locations \cup {exits[direction]}
         /\ result' = Returned("move_to_location", <<>>, TRUE, "Moved", <<"Granted">>)
         /\ UNCHANGED <<engine, inventory, completed_puzzles, unlocked_locations,
                        special_flags, story>>

\* GameEngine.move_to_location
move_to_location(direction) ==
    LET exits == Locations[current_location].exits IN
    IF direction \notin DOMAIN exits
    THEN /\ result' = Returned("move_to_location", <<>>, FALSE,
                               "InvalidDirection", <<>>)
         /\ UNCHANGED <<engine, player, story>>
    ELSE LET next_location_id == exits[direction]
             r == check_location_access(next_location_id)
         IN  IF ~r.can_access
             THEN /\ unlocked_locations' = r.unlocked
                  /\ result' = Returned("move_to_location", <<>>, FALSE,
                                        "LocationLocked", <<r.kind>> \o r.required)
                  /\ UNCHANGED <<engine, current_location, inventory,
                                 visited_locations, completed_puzzles,
                                 special_flags, story>>
             ELSE /\ unlocked_locations' = r.unlocked
                  /\ current_location' = next_location_id
                  /\ visited_locations' = visited_locations \cup {next_location_id}
                  /\ result' = Returned("move_to_location", <<>>, TRUE,
                                        "Moved", <<r.kind>>)
                  /\ UNCHANGED <<engine, inventory, completed_puzzles,
                                 special_flags, story>>

Min(S) == CHOOSE x \in S : \A y \in S : x <= y

\* list.remove(x) left out: the list as it was
Remove_not(list, x) ==
    list

\* list.remove(x): the list without the first occurrence of x
Remove(list, x) ==
    LET k == Min({i \in 1..Len(list) : list[i] = x})
    IN  SubSeq(list, 1, k - 1) \o SubSeq(list, k + 1, Len(list))

Max(S) == CHOOSE x \in S : \A y \in S : x >= y

\* The search loop of pick_up_item without the break: the last match
find_item_last(item_name) ==
    LET here == items[current_location]
        hits == {i \in 1..Len(here) :
                    \/ Contains(Lower(item_name), LowerItems[here[i]].name)
                    \/ Contains(Lower(item_name), LowerItems[here[i]].id)}
    IN  IF hits = {} THEN None ELSE here[Max(hits)]

\* The search loop of pick_up_item: the first item of the current location's
\* list whose name or id contains the query, ignoring case; None without one.
find_item(item_name) ==
    LET here == items[current_location]
        hits == {i \in 1..Len(here) :
                    \/ Contains(Lower(item_name), LowerItems[here[i]].name)
                    \/ Contains(Lower(item_name), LowerItems[here[i]].id)}
    IN  IF hits = {} THEN None ELSE here[Min(hits)]

\* pick_up_item searching the item lists of all the locations
pick_up_item_anywhere(item_name) ==
    LET places == UNION {{<<l, k>> : k \in 1..Len(items[l])} : l \in LocationIds}
        hits == {h \in places :
                    \/ Contains(Lower(item_name), LowerItems[items[h[1]][h[2]]].name)
                    \/ Contains(Lower(item_name), LowerItems[items[h[1]][h[2]]].id)}
    IN  IF hits = {}
        THEN /\ result' = Returned("pick_up_item", <<>>, FALSE, "ItemNotFound", <<>>)
             /\ UNCHANGED <<engine, player, story>>
        ELSE LET h == CHOOSE x \in hits :
                        x[1] = current_location \/ \A y \in hits : y[1] # current_location
                 item_id == items[h[1]][h[2]]
             IN  /\ inventory' = Append(inventory, item_id)
                 /\ items' = [items EXCEPT ![h[1]] = Remove(@, item_id)]
                 /\ result' = Returned("pick_up_item", <<>>, TRUE, "PickedUp", <<item_id>>)
                 /\ UNCHANGED <<engine, current_location, visited_locations,
                                completed_puzzles, unlocked_locations, special_flags,
                                location_locks, solved, hint_index, met>>

\* GameEngine.pick_up_item
pick_up_item(item_name) ==
    LET item_id == find_item(item_name) IN
    IF item_id = None
    THEN /\ result' = Returned("pick_up_item", <<>>, FALSE, "ItemNotFound", <<>>)
         /\ UNCHANGED <<engine, player, story>>
    ELSE /\ inventory' = Append(inventory, item_id)
         /\ items' = [items EXCEPT ![current_location] = Remove(@, item_id)]
         /\ result' = Returned("pick_up_item", <<>>, TRUE, "PickedUp", <<item_id>>)
         /\ UNCHANGED <<engine, current_location, visited_locations,
                        completed_puzzles, unlocked_locations, special_flags,
                        location_locks, solved, hint_index, met>>

\* GameEngine.check_inventory
check_inventory ==
    /\ result' = Returned("check_inventory", <<>>, TRUE,
                          IF inventory = <<>> THEN "InventoryEmpty" ELSE "Inventory",
                          inventory)
    /\ UNCHANGED <<engine, player, story>>

\* The search loop of interact_with_npc over the current location's npcs:
\* looking an id up in story.npcs raises KeyError when the id is not there,
\* before the name is compared.  "KeyError", the first match, or None.
find_npc(npc_name) ==
    LET here == Locations[current_location].npcs
        stops == {i \in 1..Len(here) :
                    \/ here[i] \notin NpcIds
                    \/ Contains(Lower(npc_name), LowerNpcs[here[i]].name)
                    \/ Contains(Lower(npc_name), LowerNpcs[here[i]].id)}
    IN  IF stops = {} THEN None
        ELSE IF here[Min(stops)] \notin NpcIds THEN "KeyError"
        ELSE here[Min(stops)]

\* interact_with_npc unlocking the tower when the scholar is spoken to
interact_with_npc_unlocks(npc_name) ==
    LET npc_id == find_npc(npc_name) IN
    IF npc_id = "KeyError"
    THEN /\ result' = Returned("interact_with_npc", <<>>, FALSE, "KeyError", <<>>)
         /\ UNCHANGED <<engine, player, story>>
    ELSE IF npc_id = None
    THEN /\ result' = Returned("interact_with_npc", <<>>, FALSE, "NpcNotFound", <<>>)
         /\ UNCHANGED <<engine, player, story>>
    ELSE /\ met' = [met EXCEPT ![npc_id] = TRUE]
         /\ unlocked_locations' =
               unlocked_locations \cup (IF npc_id = "scholar" THEN {"tower"} ELSE {})
         /\ result' = Returned("interact_with_npc", <<>>, TRUE, "Dialogue",
                               <<npc_id, 1>>)
         /\ UNCHANGED <<engine, current_location, inventory, visited_locations,
                        completed_puzzles, special_flags, items, location_locks,
                        solved, hint_index>>

\* GameEngine.interact_with_npc (with _display_npc_dialogue)
interact_with_npc(npc_name) ==
    LET npc_id == find_npc(npc_name) IN
    IF npc_id = "KeyError"
    THEN /\ result' = Returned("interact_with_npc", <<>>, FALSE, "KeyError", <<>>)
         /\ UNCHANGED <<engine, player, story>>
    ELSE IF npc_id = None
    THEN /\ result' = Returned("interact_with_npc", <<>>, FALSE, "NpcNotFound", <<>>)
         /\ UNCHANGED <<engine, player, story>>
    ELSE /\ met' = [met EXCEPT ![npc_id] = TRUE]
         /\ result' = Returned("interact_with_npc", <<>>, TRUE, "Dialogue",
                               <<npc_id, 1>>)
         /\ UNCHANGED <<engine, player, items, location_locks, solved, hint_index>>

\* solve_puzzle setting the solved flag without recording the puzzle as
\* completed
solve_puzzle_unrecorded(puzzle_id, answer) ==
    IF puzzle_id \notin PuzzleIds
    THEN /\ result' = Returned("solve_puzzle", <<puzzle_id, answer>>, FALSE,
                               "PuzzleNotFound", <<>>)
         /\ UNCHANGED <<engine, player, story>>
    ELSE IF solved[puzzle_id]
    THEN /\ result' = Returned("solve_puzzle", <<puzzle_id, answer>>, FALSE,
                               "PuzzleAlreadySolved", <<>>)
         /\ UNCHANGED <<engine, player, story>>
    ELSE IF Lower(answer) = Lower(Puzzles[puzzle_id].correct_answer)
    THEN /\ solved' = [solved EXCEPT ![puzzle_id] = TRUE]
         /\ unlocked_locations' = unlocked_locations \cup {Puzzles[puzzle_id].reward}
         /\ result' = Returned("solve_puzzle", <<puzzle_id, answer>>, TRUE,
                               "Solved", <<Puzzles[puzzle_id].reward>>)
         /\ UNCHANGED <<engine, current_location, inventory, visited_locations,
                        completed_puzzles, special_flags, items, location_locks,
                        hint_index, met>>
    ELSE /\ result' = Returned("solve_puzzle", <<puzzle_id, answer>>, FALSE,
                               "WrongAnswer", <<>>)
         /\ UNCHANGED <<engine, player, story>>

\* solve_puzzle without the early return for a solved puzzle
solve_puzzle_again(puzzle_id, answer) ==
    IF puzzle_id \notin PuzzleIds
    THEN /\ result' = Returned("solve_puzzle", <<puzzle_id, answer>>, FALSE,
                               "PuzzleNotFound", <<>>)
         /\ UNCHANGED <<engine, player, story>>
    ELSE IF Lower(answer) = Lower(Puzzles[puzzle_id].correct_answer)
    THEN /\ solved' = [solved EXCEPT ![puzzle_id] = TRUE]
         /\ completed_puzzles' = completed_puzzles \cup {puzzle_id}
         /\ unlocked_locations' = unlocked_locations \cup {Puzzles[puzzle_id].reward}
         /\ result' = Returned("solve_puzzle", <<puzzle_id, answer>>, TRUE,
                               "Solved", <<Puzzles[puzzle_id].reward>>)
         /\ UNCHANGED <<engine, current_location, inventory, visited_locations,
                        special_flags, items, location_locks, hint_index, met>>
    ELSE /\ result' = Returned("solve_puzzle", <<puzzle_id, answer>>, FALSE,
                               "WrongAnswer", <<>>)
         /\ UNCHANGED <<engine, player, story>>

\* solve_puzzle without the unlocking of the reward location
solve_puzzle_no_reward(puzzle_id, answer) ==
    IF puzzle_id \notin PuzzleIds
    THEN /\ result' = Returned("solve_puzzle", <<puzzle_id, answer>>, FALSE,
                               "PuzzleNotFound", <<>>)
         /\ UNCHANGED <<engine, player, story>>
    ELSE IF solved[puzzle_id]
    THEN /\ result' = Returned("solve_puzzle", <<puzzle_id, answer>>, FALSE,
                               "PuzzleAlreadySolved", <<>>)
         /\ UNCHANGED <<engine, player, story>>
    ELSE IF Lower(answer) = Lower(Puzzles[puzzle_id].correct_answer)
    THEN /\ solved' = [solved EXCEPT ![puzzle_id] = TRUE]
         /\ completed_puzzles' = completed_puzzles \cup {puzzle_id}
         /\ result' = Returned("solve_puzzle", <<puzzle_id, answer>>, TRUE,
                               "Solved", <<>>)
         /\ UNCHANGED <<engine, current_location, inventory, visited_locations,
                        unlocked_locations, special_flags, items, location_locks,
                        hint_index, met>>
    ELSE /\ result' = Returned("solve_puzzle", <<puzzle_id, answer>>, FALSE,
                               "WrongAnswer", <<>>)
         /\ UNCHANGED <<engine, player, story>>

\* solve_puzzle marking the puzzle solved after a wrong answer too
solve_puzzle_wrong_marks(puzzle_id, answer) ==
    IF puzzle_id \notin PuzzleIds
    THEN /\ result' = Returned("solve_puzzle", <<puzzle_id, answer>>, FALSE,
                               "PuzzleNotFound", <<>>)
         /\ UNCHANGED <<engine, player, story>>
    ELSE IF solved[puzzle_id]
    THEN /\ result' = Returned("solve_puzzle", <<puzzle_id, answer>>, FALSE,
                               "PuzzleAlreadySolved", <<>>)
         /\ UNCHANGED <<engine, player, story>>
    ELSE IF Lower(answer) = Lower(Puzzles[puzzle_id].correct_answer)
    THEN /\ solved' = [solved EXCEPT ![puzzle_id] = TRUE]
         /\ completed_puzzles' = completed_puzzles \cup {puzzle_id}
         /\ unlocked_locations' = unlocked_locations \cup {Puzzles[puzzle_id].reward}
         /\ result' = Returned("solve_puzzle", <<puzzle_id, answer>>, TRUE,
                               "Solved", <<Puzzles[puzzle_id].reward>>)
         /\ UNCHANGED <<engine, current_location, inventory, visited_locations,
                        special_flags, items, location_locks, hint_index, met>>
    ELSE /\ solved' = [solved EXCEPT ![puzzle_id] = TRUE]
         /\ completed_puzzles' = completed_puzzles \cup {puzzle_id}
         /\ result' = Returned("solve_puzzle", <<puzzle_id, answer>>, FALSE,
                               "WrongAnswer", <<>>)
         /\ UNCHANGED <<engine, current_location, inventory, visited_locations,
                        unlocked_locations, special_flags, items, location_locks,
                        hint_index, met>>

\* GameEngine.solve_puzzle
solve_puzzle(puzzle_id, answer) ==
    IF puzzle_id \notin PuzzleIds
    THEN /\ result' = Returned("solve_puzzle", <<puzzle_id, answer>>, FALSE,
                               "PuzzleNotFound", <<>>)
         /\ UNCHANGED <<engine, player, story>>
    ELSE LET puzzle == Puzzles[puzzle_id] IN
         IF solved[puzzle_id]
         THEN /\ result' = Returned("solve_puzzle", <<puzzle_id, answer>>, FALSE,
                                    "PuzzleAlreadySolved", <<>>)
              /\ UNCHANGED <<engine, player, story>>
         ELSE IF Lower(answer) = Lower(puzzle.correct_answer)
         THEN /\ solved' = [solved EXCEPT ![puzzle_id] = TRUE]
              /\ completed_puzzles' = completed_puzzles \cup {puzzle_id}
              /\ IF puzzle.reward # None
                 THEN /\ unlocked_locations' = unlocked_locations \cup {puzzle.reward}
                      /\ result' = Returned("solve_puzzle", <<puzzle_id, answer>>, TRUE,
                                            "Solved", <<puzzle.reward>>)
                 ELSE /\ UNCHANGED unlocked_locations
                      /\ result' = Returned("solve_puzzle", <<puzzle_id, answer>>, TRUE,
                                            "Solved", <<>>)
              /\ UNCHANGED <<engine, current_location, inventory, visited_locations,
                             special_flags, items, location_locks, hint_index, met>>
         ELSE /\ result' = Returned("solve_puzzle", <<puzzle_id, answer>>, FALSE,
                                    "WrongAnswer", <<>>)
              /\ UNCHANGED <<engine, player, story>>

\* get_puzzle_hint starting over from the first hint after the last one
get_puzzle_hint_wrap(puzzle_id) ==
    IF puzzle_id \notin PuzzleIds
    THEN /\ result' = Returned("get_puzzle_hint", <<puzzle_id>>, TRUE,
                               "PuzzleNotFound", <<>>)
         /\ UNCHANGED <<engine, player, story>>
    ELSE LET puzzle == Puzzles[puzzle_id]
             at == IF hint_index[puzzle_id] = <<>> THEN 0 ELSE hint_index[puzzle_id][1]
             index == IF at < Len(puzzle.hints) THEN at ELSE 0
         IN  /\ hint_index' = [hint_index EXCEPT ![puzzle_id] = <<index + 1>>]
             /\ result' = Returned("get_puzzle_hint", <<puzzle_id>>, TRUE,
                                   "Hint", <<puzzle.hints[index + 1]>>)
             /\ UNCHANGED <<engine, player, items, location_locks, solved, met>>

\* GameEngine.get_puzzle_hint.  The attribute _hint_index is created, as 0,
\* by the first call that gets past the two early returns.
get_puzzle_hint(puzzle_id) ==
    IF puzzle_id \notin PuzzleIds
    THEN /\ result' = Returned("get_puzzle_hint", <<puzzle_id>>, TRUE,
                               "PuzzleNotFound", <<>>)
         /\ UNCHANGED <<engine, player, story>>
    ELSE LET puzzle == Puzzles[puzzle_id] IN
         IF puzzle.hints = <<>>
         THEN /\ result' = Returned("get_puzzle_hint", <<puzzle_id>>, TRUE,
                                    "NoHintsAvailable", <<>>)
              /\ UNCHANGED <<engine, player, story>>
         ELSE LET index == IF hint_index[puzzle_id] = <<>> THEN 0
                           ELSE hint_index[puzzle_id][1]
              IN  IF index < Len(puzzle.hints)
                  THEN /\ hint_index' = [hint_index EXCEPT ![puzzle_id] = <<index + 1>>]
                       /\ result' = Returned("get_puzzle_hint", <<puzzle_id>>, TRUE,
                                             "Hint", <<puzzle.hints[index + 1]>>)
                       /\ UNCHANGED <<engine, player, items, location_locks, solved, met>>
                  ELSE /\ hint_index' = [hint_index EXCEPT ![puzzle_id] = <<index>>]
                       /\ result' = Returned("get_puzzle_hint", <<puzzle_id>>, TRUE,
                                             "AllHintsExhausted", <<>>)
                       /\ UNCHANGED <<engine, player, items, location_locks, solved, met>>

\* GameEngine.examine_location.  The listing of the people present looks
\* every npc id up in story.npcs; the exits are listed with the mark shown
\* for each (TRUE for the open mark).
examine_location ==
    LET location == Locations[current_location]
        here == items[current_location]
    IN  /\ IF \/ \E i \in 1..Len(here) : here[i] \notin ItemIds
              \/ \E i \in 1..Len(location.npcs) : location.npcs[i] \notin NpcIds
              \/ \E d \in DOMAIN location.exits : location.exits[d] \notin LocationIds
           THEN result' = Returned("examine_location", <<>>, FALSE, "KeyError", <<>>)
           ELSE result' = Returned("examine_location", <<>>, TRUE, "Rendered",
                                   [d \in DOMAIN location.exits |->
                                        location.exits[d] \in unlocked_locations])
        /\ UNCHANGED <<engine, player, story>>

\* check_ending testing the bad ending first
ending_bad_first ==
    IF /\ Cardinality(visited_locations) < 3
       /\ IF "lost_too_long" \in DOMAIN special_flags
          THEN special_flags["lost_too_long"] ELSE FALSE
    THEN "bad"
    ELSE IF /\ current_location = "hidden_chamber"
            /\ \E i \in 1..Len(inventory) : inventory[i] = "crystal_gem"
    THEN "secret"
    ELSE IF /\ current_location = "secret_vault"
            /\ Cardinality(completed_puzzles) >= 3
    THEN "good"
    ELSE None

\* The value check_ending returns in the current state
ending ==
    IF /\ current_location = "hidden_chamber"
       /\ \E i \in 1..Len(inventory) : inventory[i] = "crystal_gem"
    THEN "secret"
    ELSE IF /\ current_location = "secret_vault"
            /\ Cardinality(completed_puzzles) >= 3
    THEN "good"
    ELSE IF /\ Cardinality(visited_locations) < 3
            /\ IF "lost_too_long" \in DOMAIN special_flags
               THEN special_flags["lost_too_long"] ELSE FALSE
    THEN "bad"
    ELSE None

\* check_ending returning the ending without recording it
check_ending_unrecorded ==
    /\ result' = Returned("check_ending", <<>>, TRUE, ending, <<>>)
    /\ UNCHANGED <<engine, player, story>>

\* GameEngine.check_ending
check_ending ==
    /\ ending_type' = IF ending # None THEN ending ELSE ending_type
    /\ result' = Returned("check_ending", <<>>, TRUE, ending, <<>>)
    /\ UNCHANGED <<state, game_over, player, story>>

\* GameEngine.get_game_status
get_game_status ==
    /\ result' = Returned("get_game_status", <<>>, TRUE, "Status",
                          <<current_location, Cardinality(visited_locations),
                            Cardinality(completed_puzzles), Len(inventory)>>)
    /\ UNCHANGED <<engine, player, story>>

---------------------------------------------------------------------------
(* Any sequence of calls of the engine's methods on one engine object,    *)
(* after start_game as in main().  A call that raises leaves the object as *)
(* the raise found it, and the caller may go on calling.                   *)
(*                                                                         *)
(* Besides the puzzles' solved flags the story has three kinds of mutable  *)
(* field that no method reads across: the item lists with the inventory,   *)
(* each puzzle's hint cursor, each NPC's met flag.  A run changes at most  *)
(* MaxTracks of them and takes at most MaxItems items; calls that change   *)
(* nothing are never held back.                                            *)

MaxTracks == 1

MaxItems == 2

Tracks ==
    (IF inventory # <<>> THEN 1 ELSE 0)
    + Cardinality({p \in PuzzleIds : hint_index[p] # <<>>})
    + Cardinality({n \in NpcIds : met[n]})

\* A call made while playing, within the bounds
Playing(call) ==
    /\ state = "playing"
    /\ call
    /\ Tracks' <= MaxTracks
    /\ Len(inventory') <= MaxItems
    /\ UNCHANGED pc

Next ==
    \/ state = "menu" /\ start_game /\ UNCHANGED pc
    \/ \E location_id \in LocationArgs : Playing(CheckAccess(location_id))
    \/ \E direction \in Directions : Playing(move_to_location(direction))
    \/ \E item_name \in ItemQueries : Playing(pick_up_item(item_name))
    \/ Playing(check_inventory)
    \/ \E npc_name \in NpcQueries : Playing(interact_with_npc(npc_name))
    \/ \E puzzle_id \in PuzzleArgs, answer \in Answers :
            Playing(solve_puzzle(puzzle_id, answer))
    \/ \E puzzle_id \in PuzzleArgs : Playing(get_puzzle_hint(puzzle_id))
    \/ Playing(examine_location)
    \/ Playing(check_ending)
    \/ Playing(get_game_status)

Spec == Init /\ [][Next]_vars

---------------------------------------------------------------------------
(* check_location_access on its own.  The method reads the location's lock  *)
(* fields and the player's unlocked and completed sets; here they are drawn *)
(* from bounded sets (the constructed content among them), so that every    *)
(* branch of the method is taken, also the one for a locked location with   *)
(* no requirement, which no constructed location takes.                     *)

LockSettings ==
    [locked : BOOLEAN,
     unlock_requirements : {<<>>, <<"study_puzzle">>, <<"tower">>,
                            <<"vault_puzzle", "tower">>}]

AccessInit ==
    /\ state = "playing"
    /\ game_over = FALSE
    /\ ending_type = None
    /\ current_location = "starting_room"
    /\ inventory = <<>>
    /\ visited_locations = {}
    /\ completed_puzzles \in SUBSET PuzzleIds
    /\ unlocked_locations \in SUBSET {"hallway", "tower", "secret_room", "vault"}
    /\ special_flags = [f \in {} |-> FALSE]
    /\ items = [l \in LocationIds |-> Locations[l].items]
    /\ \E l \in LocationIds, lock \in LockSettings :
            location_locks = [ConstructedLocks EXCEPT ![l] = lock]
    /\ solved = [p \in PuzzleIds |-> p \in completed_puzzles]
    /\ hint_index = [p \in PuzzleIds |-> <<>>]
    /\ met = [n \in NpcIds |-> FALSE]
    /\ result = Returned("__init__", <<>>, TRUE, "Constructed", <<>>)
    /\ pc = "loop"

AccessNext ==
    \E location_id \in LocationArgs : CheckAccess(location_id) /\ UNCHANGED pc

AccessSpec == AccessInit /\ [][AccessNext]_vars

---------------------------------------------------------------------------
(* check_ending on its own.  The method reads the player's current         *)
(* location, inventory, completed and visited sets and flags, and writes    *)
(* the engine's ending_type; here the engine is in play with these fields   *)
(* drawn from bounded sets, the identifiers the method tests among them.    *)
(* No play of the constructed content brings the player to hidden_chamber   *)
(* or secret_vault, completes three puzzles or sets a flag.                 *)

EndingLocations == LocationIds \cup {"hidden_chamber", "secret_vault"}

EndingInit ==
    /\ state = "playing"
    /\ game_over = FALSE
    /\ ending_type \in {None, "good", "bad", "secret"}
    /\ current_location \in EndingLocations
    /\ inventory \in {<<>>, <<"crystal_gem">>, <<"old_key", "crystal_gem">>, <<"torch">>}
    /\ visited_locations \in {{}, {"hallway", "library"},
                              {"hallway", "library", "study_room"}}
    /\ completed_puzzles \in SUBSET (PuzzleIds \cup {"third_puzzle"})
    /\ unlocked_locations = {"starting_room", "hallway"}
    /\ special_flags \in {[f \in {} |-> FALSE],
                          [f \in {"lost_too_long"} |-> TRUE],
                          [f \in {"lost_too_long"} |-> FALSE]}
    /\ items = [l \in LocationIds |-> Locations[l].items]
    /\ location_locks = ConstructedLocks
    /\ solved = [p \in PuzzleIds |-> p \in completed_puzzles]
    /\ hint_index = [p \in PuzzleIds |-> <<>>]
    /\ met = [n \in NpcIds |-> FALSE]
    /\ result = Returned("__init__", <<>>, TRUE, "Constructed", <<>>)
    /\ pc = "loop"

EndingNext == check_ending /\ UNCHANGED pc

EndingSpec == EndingInit /\ [][EndingNext]_vars

---------------------------------------------------------------------------
(* main(): the command loop around one engine.  pc is "loop" at the top of *)
(* the while loop, "ending" after check_ending returned an ending,          *)
(* "render" after it returned none, "command" once the location is shown    *)
(* and a command is awaited, "exited" after sys.exit and "crashed" after an *)
(* exception left main().                                                    *)
(*                                                                          *)
(* get_player_input strips the line and puts it in lower case; the line is  *)
(* split into the command word and the rest.  The rest is a text for ambil, *)
(* bicara and jawab and a direction for ke.                                  *)

MenuChoices == {"1", "2", "3", "9"}

CommandWords ==
    {"", "lihat", "inventaris", "ambil", "bicara", "puzzle", "jawab", "hint",
     "ke", "status", "bantuan", "keluar", "lompat"}

\* The rest of the line: absent, or one of a few lower-case texts
CommandTexts ==
    { <<>>,
      <<"k", "e", "y">>,
      <<"u", "l", "a", "m", "a">>,
      <<"b", "a", "f">>,
      <<"x", "y", "z">> }

\* A branch of main() that calls no method of the engine
NoCall(kind) ==
    /\ result' = Returned("main", <<>>, TRUE, kind, <<>>)
    /\ UNCHANGED <<engine, player, story>>

\* The MENU branch
MenuChoice(choice) ==
    /\ pc = "loop"
    /\ state = "menu"
    /\ IF choice = "1" THEN start_game /\ UNCHANGED pc
       ELSE IF choice = "2" THEN NoCall("About") /\ UNCHANGED pc
       ELSE IF choice = "3" THEN NoCall("Exit") /\ pc' = "exited"
       ELSE NoCall("InvalidChoice") /\ UNCHANGED pc

\* The PLAYING branch, the test `if engine.check_ending()`
TurnCheck ==
    /\ pc = "loop"
    /\ state = "playing"
    /\ check_ending
    /\ pc' = IF ending # None THEN "ending" ELSE "render"

\* TurnEnd without the assignment of GameState.ENDED
TurnEnd_still_playing ==
    /\ pc = "ending"
    /\ result' = Returned("display_ending", <<>>, TRUE, ending_type, <<>>)
    /\ pc' = "render"
    /\ UNCHANGED <<engine, player, story>>

\* The PLAYING branch after an ending: display_ending, the state set to
\* ENDED, continue
TurnEnd ==
    /\ pc = "ending"
    /\ state' = "ended"
    /\ result' = Returned("display_ending", <<>>, TRUE, ending_type, <<>>)
    /\ pc' = "loop"
    /\ UNCHANGED <<game_over, ending_type, player, story>>

\* The PLAYING branch without an ending: print(engine.examine_location());
\* an exception of examine_location leaves main()
TurnRender ==
    /\ pc = "render"
    /\ examine_location
    /\ pc' = IF result'.kind = "KeyError" THEN "crashed" ELSE "command"

\* The PLAYING branch from get_player_input() on: one command line handled
Command(command, text, direction, confirm) ==
    LET puzzle == Locations[current_location].puzzle IN
    /\ pc = "command"
    /\ pc' = IF command = "keluar" /\ confirm = "y" THEN "exited" ELSE "loop"
    /\ CASE command = "" -> NoCall("EmptyLine")
         [] command = "lihat" -> NoCall("Look")
         [] command = "inventaris" -> check_inventory
         [] command = "ambil" ->
                IF text = <<>> THEN NoCall("Usage") ELSE pick_up_item(text)
         [] command = "bicara" ->
                IF text = <<>> THEN NoCall("Usage") ELSE interact_with_npc(text)
         [] command = "puzzle" ->
                IF puzzle # None THEN NoCall("Question") ELSE NoCall("NoPuzzleHere")
         [] command = "jawab" ->
                IF puzzle = None THEN NoCall("NoPuzzleHere")
                ELSE IF text = <<>> THEN NoCall("Usage")
                ELSE solve_puzzle(puzzle, text)
         [] command = "hint" ->
                IF puzzle # None THEN get_puzzle_hint(puzzle) ELSE NoCall("NoPuzzleHere")
         [] command = "ke" ->
                IF direction = "" THEN NoCall("Usage") ELSE move_to_location(direction)
         [] command = "status" -> get_game_status
         [] command = "bantuan" -> NoCall("Help")
         [] command = "keluar" ->
                IF confirm = "y" THEN NoCall("Exit") ELSE NoCall("Stay")
         [] OTHER -> NoCall("UnknownCommand")
    /\ Tracks' <= MaxTracks
    /\ Len(inventory') <= MaxItems

\* PlayAgain keeping the story of the engine and replacing the player only
PlayAgain_keep_story(choice) ==
    /\ pc = "loop"
    /\ state = "ended"
    /\ IF choice = "y"
       THEN /\ state' = "menu"
            /\ game_over' = FALSE
            /\ ending_type' = None
            /\ current_location' = "starting_room"
            /\ inventory' = <<>>
            /\ visited_locations' = {}
            /\ completed_puzzles' = {}
            /\ unlocked_locations' = {"starting_room", "hallway"}
            /\ special_flags' = [f \in {} |-> FALSE]
            /\ result' = Returned("__init__", <<>>, TRUE, "PlayAgain", <<>>)
            /\ UNCHANGED <<story, pc>>
       ELSE NoCall("Exit") /\ pc' = "exited"

\* The ENDED branch: with "y" a new GameEngine() (a new StoryData and a new
\* PlayerState) replaces the engine and its state is set to MENU; else exit
PlayAgain(choice) ==
    /\ pc = "loop"
    /\ state = "ended"
    /\ IF choice = "y"
       THEN /\ state' = "menu"
            /\ game_over' = FALSE
            /\ ending_type' = None
            /\ current_location' = "starting_room"
            /\ inventory' = <<>>
            /\ visited_locations' = {}
            /\ completed_puzzles' = {}
            /\ unlocked_locations' = {"starting_room", "hallway"}
            /\ special_flags' = [f \in {} |-> FALSE]
            /\ items' = [l \in LocationIds |-> Locations[l].items]
            /\ location_locks' = ConstructedLocks
            /\ solved' = [p \in PuzzleIds |-> FALSE]
            /\ hint_index' = [p \in PuzzleIds |-> <<>>]
            /\ met' = [n \in NpcIds |-> FALSE]
            /\ result' = Returned("__init__", <<>>, TRUE, "PlayAgain", <<>>)
            /\ UNCHANGED pc
       ELSE NoCall("Exit") /\ pc' = "exited"

\* main() starts with a new engine.  No play of the constructed content
\* returns an ending, so the loop is also entered with an engine in play
\* whose player is lost (the flag of the bad ending set, fewer than three
\* locations visited) after some progress: an item taken, a puzzle solved,
\* hints read, an NPC met.
LoopInit ==
    \/ Init
    \/ /\ pc = "loop"
       /\ state = "playing"
       /\ game_over = FALSE
       /\ ending_type = None
       /\ current_location \in {"starting_room", "library", "study_room"}
       /\ \E taken \in BOOLEAN :
             /\ inventory = IF taken THEN <<"old_key">> ELSE <<>>
             /\ items = [l \in LocationIds |->
                            IF taken /\ l = "starting_room" THEN <<"mysterious_note">>
                            ELSE Locations[l].items]
       /\ visited_locations \in {{}, {"hallway", "library"}}
       /\ completed_puzzles \in {{}, {"study_puzzle"}}
       /\ unlocked_locations =
             {"starting_room", "hallway"}
             \cup (IF completed_puzzles = {} THEN {} ELSE {"tower"})
       /\ special_flags = [f \in {"lost_too_long"} |-> TRUE]
       /\ location_locks = ConstructedLocks
       /\ solved = [p \in PuzzleIds |-> p \in completed_puzzles]
       /\ \E cursor \in {<<>>, <<2>>, <<4>>} :
             hint_index = [p \in PuzzleIds |->
                              IF p = "study_puzzle" THEN cursor ELSE <<>>]
       /\ \E seen \in BOOLEAN :
             met = [n \in NpcIds |-> seen /\ n = "librarian"]
       /\ result = Returned("start_game", <<>>, TRUE, "Started", <<>>)

LoopNext ==
    \/ \E choice \in MenuChoices : MenuChoice(choice)
    \/ TurnCheck
    \/ TurnEnd
    \/ TurnRender
    \/ \E command \in CommandWords, text \in CommandTexts,
          direction \in Directions \cup {""}, confirm \in {"y", "n"} :
            Command(command, text, direction, confirm)
    \/ \E choice \in {"y", "n"} : PlayAgain(choice)

LoopSpec == LoopInit /\ [][LoopNext]_vars

---------------------------------------------------------------------------
(* The engine as the commands of main() drive it: the calls main() makes,   *)
(* with jawab and hint given the puzzle of the current location and no call *)
(* of check_location_access other than the one inside move_to_location.     *)
(* Every play of main() is a sequence of these calls; a call that raises    *)
(* leaves the engine as it was and further calls are allowed, so the states *)
(* main() reaches are among the states reached here.                         *)

\* The command jawab answering whatever puzzle the answer solves
Answer_any(answer) ==
    \E puzzle_id \in PuzzleIds : solve_puzzle(puzzle_id, answer)

\* The command jawab with an answer: the puzzle of the current location
Answer(answer) ==
    /\ Locations[current_location].puzzle # None
    /\ solve_puzzle(Locations[current_location].puzzle, answer)

\* The command hint: the puzzle of the current location
Hint ==
    /\ Locations[current_location].puzzle # None
    /\ get_puzzle_hint(Locations[current_location].puzzle)

SurfaceNext ==
    \/ state = "menu" /\ start_game /\ UNCHANGED pc
    \/ \E direction \in Directions : Playing(move_to_location(direction))
    \/ \E item_name \in ItemQueries : Playing(pick_up_item(item_name))
    \/ Playing(check_inventory)
    \/ \E npc_name \in NpcQueries : Playing(interact_with_npc(npc_name))
    \/ \E answer \in Answers : Playing(Answer(answer))
    \/ Playing(Hint)
    \/ Playing(examine_location)
    \/ Playing(check_ending)
    \/ Playing(get_game_status)

SurfaceSpec == Init /\ [][SurfaceNext]_vars

---------------------------------------------------------------------------
(* Claims *)

\* The number of times item i occurs in a list
Count(list, i) ==
    Cardinality({k \in 1..Len(list) : list[k] = i})

\* The occurrences of item i in all the locations' lists and the inventory
RECURSIVE SumOver(_, _)
SumOver(f, S) ==
    IF S = {} THEN 0
    ELSE LET x == CHOOSE y \in S : TRUE IN f[x] + SumOver(f, S \ {x})

Occurrences(i) ==
    Count(inventory, i) + SumOver([l \in LocationIds |-> Count(items[l], i)], LocationIds)

InitialItemCount ==
    SumOver([l \in LocationIds |-> Len(Locations[l].items)], LocationIds)

\* C1: in every reachable state every item id occurs at most once in all the
\* locations' item lists and the inventory together, and the number of
\* occurrences in all of them is the number the constructed content has.
C1_ItemsConserved ==
    /\ \A i \in ItemIds : Occurrences(i) <= 1
    /\ SumOver([i \in ItemIds |-> Occurrences(i)], ItemIds) = InitialItemCount

\* C1 witness: two items taken in two different locations
C1_Witness ==
    /\ result.kind = "PickedUp"
    /\ Len(inventory) = 2
    /\ \E k \in 1..2 : inventory[k] \in {"mysterious_note", "old_key"}
    /\ \E k \in 1..2 : inventory[k] \in {"diary", "torch", "crystal_gem"}

\* C2: no step removes a location from unlocked_locations, and starting_room
\* and hallway are in it in every reachable state.
C2_UnlockMonotonic ==
    /\ [][unlocked_locations \subseteq unlocked_locations']_vars
    /\ []({"starting_room", "hallway"} \subseteq unlocked_locations)

\* C2 witness: all three locked locations are unlocked and calls go on
C2_Witness ==
    /\ {"tower", "secret_room", "vault"} \subseteq unlocked_locations
    /\ result.op = "pick_up_item"
    /\ result.ok

\* C3: in every reachable state a puzzle's solved flag is set exactly when
\* its id is in completed_puzzles.
C3_SolvedIffCompleted ==
    \A p \in PuzzleIds : solved[p] <=> p \in completed_puzzles

\* C3 witness: one puzzle solved, the other not
C3_Witness ==
    /\ result.op = "solve_puzzle"
    /\ result.kind = "WrongAnswer"
    /\ solved["study_puzzle"]
    /\ ~solved["vault_puzzle"]

\* C4: no call of an engine method ends in an exception: every call returns.
C4_NoUnhandledError ==
    result.kind # "KeyError"

\* C5: every identifier the content held by the engine refers to names an
\* entity of the content: exits, items, npcs, puzzle and unlock requirements
\* of the locations, location and reward of the puzzles, location of the NPCs.
C5_ContentIntegrity ==
    /\ \A l \in LocationIds :
          /\ \A d \in DOMAIN Locations[l].exits : Locations[l].exits[d] \in LocationIds
          /\ \A k \in 1..Len(items[l]) : items[l][k] \in ItemIds
          /\ \A k \in 1..Len(Locations[l].npcs) : Locations[l].npcs[k] \in NpcIds
          /\ Locations[l].puzzle \in PuzzleIds \cup {None}
          /\ \A k \in 1..Len(location_locks[l].unlock_requirements) :
                location_locks[l].unlock_requirements[k] \in PuzzleIds \cup LocationIds
    /\ \A p \in PuzzleIds :
          /\ Puzzles[p].location_id \in LocationIds
          /\ Puzzles[p].reward \in LocationIds \cup {None}
    /\ \A n \in NpcIds : Npcs[n].location_id \in LocationIds

\* C6: a call of solve_puzzle on a solved puzzle, with any answer, fails as
\* already solved and leaves solved, completed_puzzles and
\* unlocked_locations as they were.
C6_SolvedStaysSolved ==
    [][(/\ result'.op = "solve_puzzle"
        /\ result'.arg[1] \in PuzzleIds
        /\ solved[result'.arg[1]])
       => (/\ ~result'.ok
           /\ result'.kind = "PuzzleAlreadySolved"
           /\ UNCHANGED <<solved, completed_puzzles, unlocked_locations>>)]_vars

\* C6 witness: the right answer given to a solved puzzle is turned down
C6_Witness ==
    /\ result.op = "solve_puzzle"
    /\ result.kind = "PuzzleAlreadySolved"
    /\ Lower(result.arg[2]) = Lower(Puzzles[result.arg[1]].correct_answer)

\* The hint cursor of puzzle p: 0 until the attribute exists
HintCursor(p) ==
    IF hint_index[p] = <<>> THEN 0 ELSE hint_index[p][1]

\* C7: the hint cursor of a puzzle stays within 0..N; a call of
\* get_puzzle_hint with the cursor at c < N returns the hint at place c + 1
\* and moves the cursor to c + 1; with the cursor at N it reports that the
\* hints are exhausted and leaves the cursor at N; no other call moves it.
C7_HintCursor ==
    /\ [](\A p \in PuzzleIds : HintCursor(p) \in 0..Len(Puzzles[p].hints))
    /\ [][\A p \in PuzzleIds :
            IF result'.op = "get_puzzle_hint" /\ result'.arg = <<p>>
            THEN IF HintCursor(p) < Len(Puzzles[p].hints)
                 THEN /\ result'.kind = "Hint"
                      /\ result'.value = <<Puzzles[p].hints[HintCursor(p) + 1]>>
                      /\ HintCursor(p)' = HintCursor(p) + 1
                 ELSE /\ result'.kind = "AllHintsExhausted"
                      /\ HintCursor(p)' = Len(Puzzles[p].hints)
            ELSE HintCursor(p)' = HintCursor(p)]_vars

\* C7 witness: the hints of a puzzle are exhausted in a run that also moved
\* and solved a puzzle
C7_Witness ==
    /\ result.op = "get_puzzle_hint"
    /\ result.kind = "AllHintsExhausted"
    /\ HintCursor(result.arg[1]) = Len(Puzzles[result.arg[1]].hints)
    /\ current_location # "starting_room"
    /\ completed_puzzles # {}

\* C8: move_to_location with a direction that is no exit of the current
\* location fails as an invalid direction and leaves the player state as it
\* was.
C8_InvalidDirection ==
    [][\A direction \in Directions :
          (/\ direction \notin DOMAIN Locations[current_location].exits
           /\ move_to_location(direction))
          => (/\ ~result'.ok
              /\ result'.kind = "InvalidDirection"
              /\ UNCHANGED player)]_vars

\* C8 witness: a move turned down for its direction, away from the start
C8_Witness ==
    /\ result.op = "move_to_location"
    /\ result.kind = "InvalidDirection"
    /\ current_location = "tower"

\* C9: move_to_location towards a destination the access check denies fails
\* as locked and leaves current_location, visited_locations and
\* unlocked_locations as they were.
C9_LockedMove ==
    [][\A direction \in Directions :
          (/\ direction \in DOMAIN Locations[current_location].exits
           /\ ~check_location_access(Locations[current_location].exits[direction]).can_access
           /\ move_to_location(direction))
          => (/\ ~result'.ok
              /\ result'.kind = "LocationLocked"
              /\ UNCHANGED <<current_location, visited_locations, unlocked_locations>>)]_vars

\* C9 witness: a move towards the vault turned down in the cellar
C9_Witness ==
    /\ result.op = "move_to_location"
    /\ result.kind = "LocationLocked"
    /\ result.value = <<"RequirementNotMet", "vault_puzzle">>
    /\ current_location = "cellar"

\* C10: for a locked location not in unlocked_locations whose first
\* requirement is R, the access check grants exactly when R is a completed
\* puzzle or an unlocked location, a grant adds the location to
\* unlocked_locations and a denial changes nothing; without a requirement
\* the check denies and changes nothing; for a location in
\* unlocked_locations it grants and changes nothing.
C10_AccessCheck ==
    [][\A l \in LocationIds :
          CheckAccess(l) =>
            LET lock == location_locks[l]
                pending == lock.locked /\ l \notin unlocked_locations
            IN  /\ (pending /\ lock.unlock_requirements # <<>>) =>
                      /\ result'.ok <=>
                            \/ lock.unlock_requirements[1] \in completed_puzzles
                            \/ lock.unlock_requirements[1] \in unlocked_locations
                      /\ result'.ok =>
                            unlocked_locations' = unlocked_locations \cup {l}
                      /\ ~result'.ok => UNCHANGED unlocked_locations
                /\ (pending /\ lock.unlock_requirements = <<>>) =>
                      /\ ~result'.ok
                      /\ UNCHANGED unlocked_locations
                /\ l \in unlocked_locations =>
                      /\ result'.ok
                      /\ UNCHANGED unlocked_locations
                /\ UNCHANGED <<engine, current_location, inventory, visited_locations,
                               completed_puzzles, special_flags, story>>]_vars

\* C10 witness: a locked location is unlocked by the check although no
\* puzzle is completed, its requirement being an unlocked location
C10_Witness ==
    /\ result.op = "check_location_access"
    /\ result.kind = "Unlocked"
    /\ completed_puzzles = {}
    /\ \E l \in LocationIds :
          /\ l \in unlocked_locations
          /\ location_locks[l].locked
          /\ location_locks[l].unlock_requirements # <<>>
          /\ location_locks[l].unlock_requirements[1] \in unlocked_locations

\* C11: for a location that is not locked and has no unlock requirement the
\* access check grants, whatever unlocked_locations and completed_puzzles
\* hold, and changes nothing of the engine, the player or the story.
C11_OpenLocation ==
    [][\A l \in LocationIds :
          (/\ ~location_locks[l].locked
           /\ location_locks[l].unlock_requirements = <<>>
           /\ CheckAccess(l))
          => (/\ result'.ok
              /\ result'.kind = "Granted"
              /\ UNCHANGED <<engine, player, story>>)]_vars

\* C11 witness: the check grants with nothing unlocked and nothing completed,
\* the locations being as constructed
C11_Witness ==
    /\ result.op = "check_location_access"
    /\ result.ok
    /\ result.kind = "Granted"
    /\ unlocked_locations = {}
    /\ completed_puzzles = {}
    /\ location_locks = ConstructedLocks

\* C12: solve_puzzle on an unsolved puzzle with its answer in any case sets
\* the solved flag, adds the puzzle to completed_puzzles and adds the reward
\* location to unlocked_locations; once study_puzzle is solved tower is in
\* unlocked_locations, and a move north from study_room succeeds and makes
\* tower the current location.
C12_CorrectAnswer ==
    /\ [][\A p \in PuzzleIds, a \in Answers :
            (/\ ~solved[p]
             /\ Lower(a) = Lower(Puzzles[p].correct_answer)
             /\ solve_puzzle(p, a))
            => (/\ result'.ok
                /\ solved'[p]
                /\ completed_puzzles' = completed_puzzles \cup {p}
                /\ Puzzles[p].reward # None =>
                      unlocked_locations' = unlocked_locations \cup {Puzzles[p].reward})]_vars
    /\ [](solved["study_puzzle"] => "tower" \in unlocked_locations)
    /\ [][(/\ solved["study_puzzle"]
           /\ current_location = "study_room"
           /\ move_to_location("utara"))
          => (/\ result'.ok
              /\ current_location' = "tower")]_vars

\* C12 witness: the player has moved into the tower from study_room, the
\* puzzle of study_room being the only one solved
C12_Witness ==
    /\ result.op = "move_to_location"
    /\ result.kind = "Moved"
    /\ current_location = "tower"
    /\ completed_puzzles = {"study_puzzle"}
    /\ "secret_room" \notin visited_locations

\* C13: solve_puzzle on an unsolved puzzle with another answer fails as a
\* wrong answer and changes nothing of the engine, the player or the story;
\* an unsolved puzzle given its answer is solved, also right after a wrong
\* answer to it: the wrong answers are not counted.
C13_WrongAnswer ==
    /\ [][\A p \in PuzzleIds, a \in Answers :
            (/\ ~solved[p]
             /\ Lower(a) # Lower(Puzzles[p].correct_answer)
             /\ solve_puzzle(p, a))
            => (/\ ~result'.ok
                /\ result'.kind = "WrongAnswer"
                /\ UNCHANGED <<engine, player, story>>)]_vars
    /\ [][(/\ result.kind = "WrongAnswer"
           /\ result'.op = "solve_puzzle"
           /\ result'.arg[1] = result.arg[1]
           /\ Lower(result'.arg[2]) = Lower(Puzzles[result.arg[1]].correct_answer))
          => (/\ result'.ok
              /\ result'.kind = "Solved"
              /\ solved'[result.arg[1]])]_vars

\* C13 witness: the answer of the other puzzle has been turned down for a
\* puzzle that is still unsolved
C13_Witness ==
    /\ result.op = "solve_puzzle"
    /\ result.kind = "WrongAnswer"
    /\ result.arg[1] \in PuzzleIds
    /\ ~solved[result.arg[1]]
    /\ result.arg[1] \notin completed_puzzles
    /\ \E q \in PuzzleIds \ {result.arg[1]} :
          Lower(result.arg[2]) = Lower(Puzzles[q].correct_answer)

\* The items whose name or id contains the query, ignoring case
QueryMatches ==
    [item_name \in ItemQueries |->
        {i \in ItemIds :
            \/ Contains(Lower(item_name), Lower(Items[i].name))
            \/ Contains(Lower(item_name), Lower(Items[i].id))}]

\* The query matches no item lying in location l
NoMatchIn(item_name, l) ==
    \A k \in 1..Len(items[l]) : items[l][k] \notin QueryMatches[item_name]

\* C14: pick_up_item with a query that matches no item of the current
\* location's list fails as item not found and leaves the inventory and all
\* the item lists as they were, whatever lies in the other locations; an
\* item picked up was in the current location's list and leaves that list
\* only.
C14_PickUpHere ==
    /\ [][\A item_name \in ItemQueries :
            (/\ result'.op = "pick_up_item"
             /\ NoMatchIn(item_name, current_location)
             /\ pick_up_item(item_name))
            => (/\ ~result'.ok
                /\ result'.kind = "ItemNotFound"
                /\ UNCHANGED <<inventory, items>>)]_vars
    /\ [][(result'.op = "pick_up_item" /\ result'.ok)
          => (/\ \E k \in 1..Len(items[current_location]) :
                    items[current_location][k] = result'.value[1]
              /\ inventory' = Append(inventory, result'.value[1])
              /\ \A l \in LocationIds \ {current_location} : items'[l] = items[l])]_vars

\* C14 witness: in the hallway of a fresh game, which holds no item, a
\* pick-up has failed while starting_room still holds its two items, which
\* queries of ItemQueries match
C14_Witness ==
    /\ result.op = "pick_up_item"
    /\ result.kind = "ItemNotFound"
    /\ current_location = "hallway"
    /\ visited_locations = {"hallway"}
    /\ inventory = <<>>
    /\ items["starting_room"] = <<"mysterious_note", "old_key">>
    /\ \E item_name \in ItemQueries :
          /\ NoMatchIn(item_name, "hallway")
          /\ ~NoMatchIn(item_name, "starting_room")

\* The conditions of the three endings, in the words of the evaluator's
\* description: the hidden chamber with the crystal in the inventory; the
\* vault identifier the evaluator tests with three puzzles completed; fewer
\* than three locations visited with the flag lost_too_long set.
HasFlag(f) ==
    f \in DOMAIN special_flags /\ special_flags[f]

SecretCondition ==
    /\ current_location = "hidden_chamber"
    /\ \E k \in 1..Len(inventory) : inventory[k] = "crystal_gem"

GoodCondition ==
    /\ current_location = "secret_vault"
    /\ Cardinality(completed_puzzles) >= 3

BadCondition ==
    /\ Cardinality(visited_locations) < 3
    /\ HasFlag("lost_too_long")

\* C15: in every player state check_ending returns the secret ending when
\* its condition holds, else the good ending when its condition holds, else
\* the bad ending when its condition holds, else nothing: the result is
\* fixed by the player state and the first condition that holds wins.
C15_EndingOrder ==
    [][check_ending =>
          /\ SecretCondition => result'.kind = "secret"
          /\ (~SecretCondition /\ GoodCondition) => result'.kind = "good"
          /\ (~SecretCondition /\ ~GoodCondition /\ BadCondition) => result'.kind = "bad"
          /\ (~SecretCondition /\ ~GoodCondition /\ ~BadCondition) => result'.kind = None]_vars

\* C15 witness: the secret ending returned in a state where the condition of
\* the bad ending holds too
C15_Witness ==
    /\ result.op = "check_ending"
    /\ result.kind = "secret"
    /\ SecretCondition
    /\ BadCondition

\* C16: after check_ending in a player state where the secret condition
\* does not hold, the current location is the vault of the content and at
\* least three puzzles are completed, the result is the good ending.
C16_GoodEndingInVault ==
    (/\ result.op = "check_ending"
     /\ ~SecretCondition
     /\ current_location = "vault"
     /\ Cardinality(completed_puzzles) >= 3)
    => result.kind = "good"

NoEndingInPlay ==
    /\ ending = None
    /\ result.op = "check_ending" => result.kind = None

\* C18: from the fresh game some sequence of commands reaches a state where
\* check_ending returns an ending.  The commands move the player only along
\* the exits of the content and none writes special_flags, so such a
\* sequence exists only if an ending holds already, the player stands in or
\* an exit leads to a location that check_ending tests, or the flag of the
\* bad ending is set.
C18_EndingReachable ==
    \/ ending # None
    \/ current_location \in {"hidden_chamber", "secret_vault"}
    \/ \E l \in LocationIds : \E d \in DOMAIN Locations[l].exits :
          Locations[l].exits[d] \in {"hidden_chamber", "secret_vault"}
    \/ HasFlag("lost_too_long")

\* The methods of the engine that carry out a command of the player
EngineCommands ==
    {"move_to_location", "pick_up_item", "interact_with_npc", "solve_puzzle",
     "get_puzzle_hint"}

\* C19: in main() every turn of play starts with check_ending; the location
\* is rendered only right after check_ending returned nothing and a command
\* is handled only right after the rendering; when check_ending returns an
\* ending the next step sets the state to ended, and in the ended state no
\* command method of the engine is called: the only steps are the new game
\* and the exit.
C19_EndingStopsPlay ==
    /\ [][(pc = "loop" /\ state = "playing") => result'.op = "check_ending"]_vars
    /\ [][TurnRender => (result.op = "check_ending" /\ result.kind = None)]_vars
    /\ [][result'.op \in EngineCommands =>
            (/\ pc = "command"
             /\ state = "playing"
             /\ result.op = "examine_location")]_vars
    /\ [][(result'.op = "check_ending" /\ result'.kind # None) => pc' = "ending"]_vars
    /\ [][pc = "ending" => (state' = "ended" /\ pc' = "loop")]_vars
    /\ [][state = "ended" =>
            (/\ result'.op \notin EngineCommands
             /\ \/ state' = "menu" /\ result'.kind = "PlayAgain"
                \/ state' = "ended" /\ pc' = "exited")]_vars

\* C19 witness: the bad ending was returned and shown, and the state is
\* ended
C19_Witness ==
    /\ state = "ended"
    /\ pc = "loop"
    /\ result.op = "display_ending"
    /\ ending_type = "bad"
    /\ inventory # <<>>

\* The player and the mutable fields of the story are those of a newly
\* constructed engine
FreshGame ==
    /\ current_location = "starting_room"
    /\ inventory = <<>>
    /\ visited_locations = {}
    /\ completed_puzzles = {}
    /\ unlocked_locations = {"starting_room", "hallway"}
    /\ DOMAIN special_flags = {}
    /\ \A l \in LocationIds : items[l] = Locations[l].items
    /\ \A p \in PuzzleIds : ~solved[p] /\ hint_index[p] = <<>>
    /\ \A n \in NpcIds : ~met[n]

\* C20: the step of main() that leaves the ended state for a new game
\* leaves the player and every mutable field of the story as a newly
\* constructed engine has them, whatever they were before.
C20_RestartFresh ==
    [][(state = "ended" /\ state' # "ended") => FreshGame']_vars

\* C20 witness: a new game after an ending
C20_Witness ==
    /\ state = "menu"
    /\ result.kind = "PlayAgain"
    /\ FreshGame

\* C21: a move_to_location that succeeds makes the destination of the exit
\* the current location and adds it to visited_locations; unlocked_locations
\* stays or gains the destination; the inventory, completed_puzzles, the
\* flags and the story (item lists, solved flags, hint cursors) are as they
\* were.
C21_MoveFrame ==
    [][\A direction \in Directions :
          (/\ result'.op = "move_to_location"
           /\ result'.ok
           /\ move_to_location(direction))
          => LET destination == Locations[current_location].exits[direction] IN
             /\ current_location' = destination
             /\ visited_locations' = visited_locations \cup {destination}
             /\ \/ unlocked_locations' = unlocked_locations
                \/ unlocked_locations' = unlocked_locations \cup {destination}
             /\ UNCHANGED <<inventory, completed_puzzles, special_flags, story>>]_vars

\* C21 witness: the move into secret_room, which the move itself unlocked,
\* with an item in the inventory
C21_Witness ==
    /\ result.op = "move_to_location"
    /\ result.kind = "Moved"
    /\ result.value = <<"Unlocked">>
    /\ current_location = "secret_room"
    /\ "secret_room" \in visited_locations
    /\ inventory # <<>>

\* C22: in the rendering of the current location an exit is marked open
\* exactly when check_location_access grants its destination in that state.
C22_ExitMarks ==
    (result.op = "examine_location" /\ result.kind = "Rendered")
    => \A d \in DOMAIN Locations[current_location].exits :
          result.value[d] =
              check_location_access(Locations[current_location].exits[d]).can_access

\* C23: a pick_up_item that succeeds takes the first item of the current
\* location's list whose name or id contains the query, ignoring case: that
\* item is appended to the inventory and the location's list is left
\* without it, the other items in their order.
C23_FirstMatch ==
    [][\A item_name \in ItemQueries :
          (/\ result'.op = "pick_up_item"
           /\ result'.ok
           /\ pick_up_item(item_name))
          => LET here == items[current_location]
                 k == Min({i \in 1..Len(here) : here[i] \in QueryMatches[item_name]})
             IN  /\ result'.value = <<here[k]>>
                 /\ inventory' = inventory \o <<here[k]>>
                 /\ items'[current_location] =
                        SubSeq(here, 1, k - 1) \o SubSeq(here, k + 1, Len(here))
                 /\ \A l \in LocationIds \ {current_location} : items'[l] = items[l]]_vars

\* C23 witness: of the two items of starting_room the second was taken
\* first, by a query matching it alone, and the first after it
C23_Witness ==
    /\ result.op = "pick_up_item"
    /\ result.kind = "PickedUp"
    /\ inventory = <<"old_key", "mysterious_note">>
    /\ items["starting_room"] = <<>>

\* The NPCs whose name or id contains the query, ignoring case
NpcQueryMatches ==
    [npc_name \in NpcQueries |->
        {n \in NpcIds :
            \/ Contains(Lower(npc_name), Lower(Npcs[n].name))
            \/ Contains(Lower(npc_name), Lower(Npcs[n].id))}]

\* C24: interact_with_npc looks among the NPCs listed in the current
\* location: with one whose name or id contains the query it succeeds, sets
\* the met flag of the first such NPC and returns its first dialogue; with
\* none it fails as NPC not found and changes nothing; no step clears a met
\* flag.
C24_TalkHere ==
    /\ [][\A npc_name \in NpcQueries :
            (/\ result'.op = "interact_with_npc"
             /\ interact_with_npc(npc_name))
            => LET here == Locations[current_location].npcs
                   hits == {i \in 1..Len(here) : here[i] \in NpcQueryMatches[npc_name]}
               IN  IF hits # {}
                   THEN /\ result'.ok
                        /\ met'[here[Min(hits)]]
                        /\ result'.value = <<here[Min(hits)], 1>>
                   ELSE /\ ~result'.ok
                        /\ result'.kind = "NpcNotFound"
                        /\ UNCHANGED <<engine, player, story>>]_vars
    /\ [][\A n \in NpcIds : met[n] => met'[n]]_vars

\* C25: in every reachable state the current location is not locked or is
\* in unlocked_locations; tower is the current location or visited only
\* with study_puzzle completed, and vault only with vault_puzzle completed.
C25_NoLockedEntry ==
    /\ \/ ~location_locks[current_location].locked
       \/ current_location \in unlocked_locations
    /\ (current_location = "tower" \/ "tower" \in visited_locations)
          => "study_puzzle" \in completed_puzzles
    /\ (current_location = "vault" \/ "vault" \in visited_locations)
          => "vault_puzzle" \in completed_puzzles

\* C25 witness: the player has moved into the vault
C25_Witness ==
    /\ result.op = "move_to_location"
    /\ result.kind = "Moved"
    /\ current_location = "vault"
    /\ "tower" \in visited_locations

\* C27: in every reachable state the current location is in
\* visited_locations.
C27_CurrentVisited ==
    current_location \in visited_locations

\* C28: pick_up_item, interact_with_npc, get_puzzle_hint, check_inventory,
\* get_game_status and examine_location leave the current location, the
\* visited, unlocked and completed sets and the flags as they were;
\* solve_puzzle leaves the current location, the visited set, the inventory
\* and the item lists as they were; no step changes the flags.
C28_NarrowEffects ==
    /\ [][result'.op \in {"pick_up_item", "interact_with_npc", "get_puzzle_hint",
                          "check_inventory", "get_game_status", "examine_location"}
          => UNCHANGED <<current_location, visited_locations, unlocked_locations,
                         completed_puzzles, special_flags>>]_vars
    /\ [][result'.op = "solve_puzzle"
          => UNCHANGED <<current_location, visited_locations, inventory, items>>]_vars
    /\ [][UNCHANGED special_flags]_vars

\* C28 witness: the scholar was spoken to in study_room, after its puzzle
\* was solved
C28_Witness ==
    /\ result.op = "interact_with_npc"
    /\ result.kind = "Dialogue"
    /\ met["scholar"]
    /\ current_location = "study_room"
    /\ completed_puzzles = {"study_puzzle"}

\* C26: with the commands of main(), where an answer goes to the puzzle of
\* the current location, in every reachable state vault_puzzle completed
\* implies study_puzzle completed, vault unlocked implies tower unlocked,
\* and the location of every completed puzzle is visited.
C26_Progressive ==
    /\ "vault_puzzle" \in completed_puzzles => "study_puzzle" \in completed_puzzles
    /\ "vault" \in unlocked_locations => "tower" \in unlocked_locations
    /\ \A p \in completed_puzzles : Puzzles[p].location_id \in visited_locations

\* C26 witness: vault_puzzle has just been solved, in secret_room
C26_Witness ==
    /\ result.op = "solve_puzzle"
    /\ result.kind = "Solved"
    /\ result.arg[1] = "vault_puzzle"
    /\ current_location = "secret_room"
    /\ completed_puzzles = PuzzleIds
    /\ "vault" \in unlocked_locations

===========================================================================
